---------------------------- MODULE Spec2Model ----------------------------
(***************************************************************************)
(* Name correction of subtitle captions (src/name_list_replacement.py).     *)
(*                                                                         *)
(* A Python str is a sequence of one-character strings.  Offsets are       *)
(* 0-based and half-open, as in Python; TLA+ sequences are 1-based, so     *)
(* character i of Python is element i+1 here.                              *)
(***************************************************************************)
EXTENDS Integers, Sequences, FiniteSets, TLC

VARIABLES
    \* fix_misspelled_name
    recognized_name, char_edit_dist_threshold, name_result, name_pc,
    \* fix_misspelled_name on the same roster in another order
    reordered_names, reordered_result,
    \* shared arguments
    confirmed_names, skip_names,
    \* fix_misspelled_names_of_caption
    caption_text, ner_spans, recognized_names, fixed_caption, char_shift,
    span_idx, cap_pc,
    \* two calls in a row on the same roster and skip list
    pass, first_text, first_spans, first_fixed,
    \* fix_misspelled_names_in_srt
    srt, srt0, sweep_idx, change_count, sweep_pc, exception, reported, saved,
    timing_read, text_writes

name_vars  == <<recognized_name, char_edit_dist_threshold, name_result, name_pc,
                reordered_names, reordered_result>>
arg_vars   == <<confirmed_names, skip_names>>
cap_vars   == <<caption_text, ner_spans, recognized_names, fixed_caption,
                char_shift, span_idx, cap_pc>>
pass_vars  == <<pass, first_text, first_spans, first_fixed>>
sweep_vars == <<srt, srt0, sweep_idx, change_count, sweep_pc, exception,
                reported, saved, timing_read, text_writes>>
vars == <<name_vars, arg_vars, cap_vars, pass_vars, sweep_vars>>

-----------------------------------------------------------------------------
(* Bounds of the model *)

MaxRoster == 3
MaxThreshold == 3
MaxSpans == 2
MaxCaptions == 2

(* Program constants *)

DefaultThreshold == 2
ShortNameLen == 3
ShortNameDist == 1
SweepCallPositional == 1

-----------------------------------------------------------------------------
(* Python values *)

None == <<"None">>

Min2(a, b) == IF a <= b THEN a ELSE b
Max2(a, b) == IF a >= b THEN a ELSE b

\* The position a slice bound i denotes in a str of length n: a negative
\* bound counts from the end, and every bound is clamped into 0..n.
PyBound(n, i) == IF i < 0 THEN Max2(0, n + i) ELSE Min2(i, n)

\* s[lo:hi]
PySlice(s, lo, hi) ==
    LET a == PyBound(Len(s), lo)
        b == PyBound(Len(s), hi)
    IN  IF a >= b THEN <<>> ELSE SubSeq(s, a + 1, b)

\* s[:hi] and s[lo:]
PyPrefix(s, hi) == PySlice(s, 0, hi)
PySuffix(s, lo) == PySlice(s, lo, Len(s))

-----------------------------------------------------------------------------
(* Levenshtein.distance: unit-cost insertions, deletions and substitutions, *)
(* computed row by row (Wagner-Fischer).  A row holds columns 0..Len(b) at *)
(* positions 1..Len(b)+1.                                                  *)

RECURSIVE LevRowFill(_, _, _, _)
LevRowFill(prev, ch, b, cur) ==
    IF Len(cur) = Len(b) + 1 THEN cur
    ELSE LET j    == Len(cur)
             cost == IF ch = b[j] THEN 0 ELSE 1
             v    == Min2(Min2(prev[j + 1] + 1, cur[j] + 1), prev[j] + cost)
         IN  LevRowFill(prev, ch, b, Append(cur, v))

\* Row i from row i - 1; the distance is the last entry of the last row.
\* (Len(row) is asked first so that each row is evaluated before the next
\* one is started.)
RECURSIVE LevRows(_, _, _, _)
LevRows(a, b, i, prev) ==
    IF i > Len(a) THEN prev[Len(b) + 1]
    ELSE LET row == LevRowFill(prev, a[i], b, <<i>>)
         IN  IF Len(row) = Len(b) + 1 THEN LevRows(a, b, i + 1, row) ELSE -1

distance(a, b) == LevRows(a, b, 1, [j \in 1..(Len(b) + 1) |-> j - 1])

-----------------------------------------------------------------------------
(* fix_misspelled_name *)

\* The test that stores conf_name in potential_names (the if / elif).
AcceptsShortAsLong(conf_name, d, threshold) == d <= threshold
Accepts(conf_name, d, threshold) ==
    \/ Len(conf_name) <= ShortNameLen /\ d <= ShortNameDist
    \/ Len(conf_name) > ShortNameLen /\ d <= threshold

\* potential_names[key] = val on a dict kept as the sequence of its items in
\* insertion order: a key already present keeps its place.
DictSet(d, key, val) ==
    IF \E i \in 1..Len(d) : d[i].name = key
    THEN [i \in 1..Len(d) |->
             IF d[i].name = key THEN [name |-> key, dist |-> val] ELSE d[i]]
    ELSE Append(d, [name |-> key, dist |-> val])

\* The for loop over confirmed_names, from entry i on.
RECURSIVE PotentialNames(_, _, _, _, _)
PotentialNames(name, confirmed, threshold, i, acc) ==
    IF i > Len(confirmed) THEN acc
    ELSE LET conf_name == confirmed[i]
             d == distance(name, conf_name)
         IN  PotentialNames(name, confirmed, threshold, i + 1,
                 IF Accepts(conf_name, d, threshold)
                 THEN DictSet(acc, conf_name, d) ELSE acc)

\* sorted(items, key = distance) is stable: an item goes behind every item
\* already placed whose key is not larger.
InsertBeforeEqual(sorted, item) ==
    LET n == Cardinality({i \in 1..Len(sorted) : sorted[i].dist < item.dist})
    IN  SubSeq(sorted, 1, n) \o <<item>> \o SubSeq(sorted, n + 1, Len(sorted))
InsertSorted(sorted, item) ==
    LET n == Cardinality({i \in 1..Len(sorted) : sorted[i].dist <= item.dist})
    IN  SubSeq(sorted, 1, n) \o <<item>> \o SubSeq(sorted, n + 1, Len(sorted))

RECURSIVE SortedDescending(_, _, _)
SortedDescending(items, i, acc) ==
    IF i > Len(items) THEN acc
    ELSE SortedDescending(items, i + 1,
             LET n == Cardinality({j \in 1..Len(acc) : acc[j].dist >= items[i].dist})
             IN  SubSeq(acc, 1, n) \o <<items[i]>> \o SubSeq(acc, n + 1, Len(acc)))
KeptInRosterOrder(items, i, acc) == items
RECURSIVE SortedByDistance(_, _, _)
SortedByDistance(items, i, acc) ==
    IF i > Len(items) THEN acc
    ELSE SortedByDistance(items, i + 1, InsertSorted(acc, items[i]))

fix_name_without_skip(name, confirmed, skip, threshold) ==
    LET potential_names == PotentialNames(name, confirmed, threshold, 1, <<>>)
    IN  IF potential_names = <<>> THEN name
        ELSE SortedByDistance(potential_names, 1, <<>>)[1].name
fix_misspelled_name(name, confirmed, skip, threshold) ==
    IF name \in skip THEN name
    ELSE LET potential_names == PotentialNames(name, confirmed, threshold, 1, <<>>)
         IN  IF potential_names = <<>> THEN name
             ELSE LET sorted_potenial_names ==
                          SortedByDistance(potential_names, 1, <<>>)
                      best_name == sorted_potenial_names[1].name
                  IN  best_name

-----------------------------------------------------------------------------
(* Names and captions the model draws its inputs from *)

Empty == <<>>
J     == <<"J">>
Al    == <<"A", "l">>
Jo    == <<"J", "o">>
Ale   == <<"A", "l", "e">>
Jon   == <<"J", "o", "n">>
Ally  == <<"A", "l", "l", "y">>
Jonh  == <<"J", "o", "n", "h">>
John  == <<"J", "o", "h", "n">>
Joan  == <<"J", "o", "a", "n">>
Mary  == <<"M", "a", "r", "y">>
Marey == <<"M", "a", "r", "e", "y">>

Candidates == {Empty, Al, Jo, Ale, Jon, Ally, Jonh}
RosterPool == {J, Al, Jon, John, Joan}
SkipLists  == SUBSET {Jon, Ale}

RECURSIVE SeqsUpTo(_, _)
SeqsUpTo(S, n) ==
    IF n = 0 THEN {<<>>}
    ELSE LET shorter == SeqsUpTo(S, n - 1)
         IN  shorter \cup {Append(q, x) : q \in {r \in shorter : Len(r) = n - 1}, x \in S}

Rosters    == SeqsUpTo(RosterPool, MaxRoster)
Thresholds == 0..MaxThreshold

-----------------------------------------------------------------------------
(* Values of the variables an operation does not use *)

NameIdle ==
    /\ recognized_name = Empty /\ char_edit_dist_threshold = DefaultThreshold
    /\ name_result = None /\ name_pc = "idle"
    /\ reordered_names = <<>> /\ reordered_result = None

CaptionIdle ==
    /\ caption_text = Empty /\ ner_spans = <<>> /\ recognized_names = <<>>
    /\ fixed_caption = None /\ char_shift = 0 /\ span_idx = 0 /\ cap_pc = "idle"
    /\ pass = 0 /\ first_text = None /\ first_spans = <<>> /\ first_fixed = None

SweepIdle ==
    /\ srt = <<>> /\ srt0 = <<>> /\ sweep_idx = 0 /\ change_count = 0
    /\ sweep_pc = "idle" /\ exception = "none" /\ reported = <<>> /\ saved = FALSE
    /\ timing_read = FALSE /\ text_writes = {}

-----------------------------------------------------------------------------
(* A call of fix_misspelled_name *)

InitName ==
    /\ recognized_name \in Candidates
    /\ confirmed_names \in Rosters
    /\ skip_names \in SkipLists
    /\ char_edit_dist_threshold \in Thresholds
    /\ name_result = None /\ name_pc = "call"
    /\ reordered_names = <<>> /\ reordered_result = None
    /\ CaptionIdle /\ SweepIdle

CallFixName ==
    /\ name_pc = "call"
    /\ name_result' = fix_misspelled_name(recognized_name, confirmed_names,
                                          skip_names, char_edit_dist_threshold)
    /\ name_pc' = "returned"
    /\ UNCHANGED <<recognized_name, char_edit_dist_threshold, reordered_names,
                   reordered_result, arg_vars, cap_vars, pass_vars, sweep_vars>>

NextName == CallFixName
SpecName == InitName /\ [][NextName]_vars

-----------------------------------------------------------------------------
(* Two calls of fix_misspelled_name with the same candidate, skip list and  *)
(* threshold, the second on the entries of the roster in another order      *)

OrderCandidates == {Jo, Jon, Jonh}
OrderPool       == {Jon, John, Joan}
OrderSkipLists  == SUBSET {Jon}
OrderRosters    == SeqsUpTo(OrderPool, MaxRoster)

Reorderings(names) ==
    IF names = <<>> THEN {<<>>}
    ELSE {[i \in 1..Len(names) |-> names[p[i]]] : p \in Permutations(1..Len(names))}

InitOrder ==
    /\ recognized_name \in OrderCandidates
    /\ confirmed_names \in OrderRosters
    /\ reordered_names \in Reorderings(confirmed_names)
    /\ skip_names \in OrderSkipLists
    /\ char_edit_dist_threshold \in Thresholds
    /\ name_result = None /\ reordered_result = None /\ name_pc = "call"
    /\ CaptionIdle /\ SweepIdle

CallFixNameReordered ==
    /\ name_pc = "returned"
    /\ reordered_result' = fix_misspelled_name(recognized_name, reordered_names,
                                               skip_names, char_edit_dist_threshold)
    /\ name_pc' = "returned_both"
    /\ UNCHANGED <<recognized_name, char_edit_dist_threshold, name_result,
                   reordered_names, arg_vars, cap_vars, pass_vars, sweep_vars>>

NextOrder == CallFixName \/ CallFixNameReordered
SpecOrder == InitOrder /\ [][NextOrder]_vars

-----------------------------------------------------------------------------
(* The tagger.  Sentence(text) splits the text into tokens and              *)
(* tagger.predict labels spans of tokens; the tagger is a capability passed *)
(* in by the caller, so what it labels is a choice: any sequence of up to   *)
(* MaxSpans entities that start at a capitalised token and end at the end   *)
(* of one, or one past the end of the text, in any order, or a failure.     *)

IsLetter(c) == c \notin {" ", ",", ".", "!"}
IsUpper(c)  == c \in {"A", "H", "J", "M"}

TokenStarts(t) ==
    {i \in 0..(Len(t) - 1) : IsLetter(t[i + 1]) /\ (i = 0 \/ ~IsLetter(t[i]))}
TokenEnd(t, s) ==
    CHOOSE e \in (s + 1)..Len(t) :
        /\ \A i \in (s + 1)..e : IsLetter(t[i])
        /\ e = Len(t) \/ ~IsLetter(t[e + 1])
NameStarts(t) == {s \in TokenStarts(t) : IsUpper(t[s + 1])}
NameEnds(t)   == {TokenEnd(t, s) : s \in NameStarts(t)} \cup {Len(t) + 1}

Tags == {"PER", "LOC"}

Entities(t) ==
    {[text |-> PySlice(t, s, e), tag |-> g, start_position |-> s, end_position |-> e] :
        s \in NameStarts(t), e \in NameEnds(t), g \in Tags}

TaggerOutputs(t) == SeqsUpTo(Entities(t), MaxSpans)

-----------------------------------------------------------------------------
(* recognize_names: the entities tagged PER, in the order given *)

RECURSIVE recognize_every_tag(_)
recognize_every_tag(spans) ==
    IF spans = <<>> THEN <<>>
    ELSE <<[text           |-> Head(spans).text,
            tag            |-> Head(spans).tag,
            text_start_pos |-> Head(spans).start_position,
            text_end_pos   |-> Head(spans).end_position]>>
             \o recognize_every_tag(Tail(spans))
RECURSIVE recognize_names(_)
recognize_names(spans) ==
    IF spans = <<>> THEN <<>>
    ELSE LET entity == Head(spans)
             rest   == recognize_names(Tail(spans))
         IN  IF entity.tag = "PER"
             THEN <<[text           |-> entity.text,
                     tag            |-> entity.tag,
                     text_start_pos |-> entity.start_position,
                     text_end_pos   |-> entity.end_position]>> \o rest
             ELSE rest

-----------------------------------------------------------------------------
(* fix_misspelled_names_of_caption *)

\* fixed_caption[:start + char_shift] + fixed_name + fixed_caption[end + char_shift:]
Splice(fixed, rec_name, fixed_name, shift) ==
    PyPrefix(fixed, rec_name.text_start_pos + shift)
        \o fixed_name
        \o PySuffix(fixed, rec_name.text_end_pos + shift)

\* char_shift += len(fixed_name) - len(rec_name['text'])
ShiftNotUpdated(shift, fixed_name, rec_name) == shift
ShiftReversed(shift, fixed_name, rec_name) ==
    shift + Len(rec_name.text) - Len(fixed_name)
ShiftAfter(shift, fixed_name, rec_name) ==
    shift + Len(fixed_name) - Len(rec_name.text)

\* The body of the for loop, from recognized name i on.
RECURSIVE FixSpans(_, _, _, _, _, _)
FixSpans(names, confirmed, skip, i, fixed, shift) ==
    IF i > Len(names) THEN fixed
    ELSE LET rec_name   == names[i]
             fixed_name == fix_misspelled_name(rec_name.text, confirmed, skip,
                                               DefaultThreshold)
         IN  FixSpans(names, confirmed, skip, i + 1,
                      Splice(fixed, rec_name, fixed_name, shift),
                      ShiftAfter(shift, fixed_name, rec_name))

\* The whole call, given what the tagger labels in the text.
fix_misspelled_names_of_caption(text, confirmed, skip, spans) ==
    LET names == recognize_names(spans)
    IN  IF Len(names) = 0 THEN text
        ELSE FixSpans(names, confirmed, skip, 1, text, 0)

\* The same call, statement by statement.
Recognize(outputs) ==
    /\ cap_pc = "call"
    /\ \E spans \in outputs :
          /\ ner_spans' = spans
          /\ recognized_names' = recognize_names(spans)
          /\ fixed_caption' = caption_text
          /\ char_shift' = 0
          /\ span_idx' = 0
          /\ cap_pc' = IF Len(recognize_names(spans)) = 0 THEN "done" ELSE "loop"
    /\ UNCHANGED <<caption_text, name_vars, arg_vars, pass_vars, sweep_vars>>

CaptionRecognize == pass = 1 /\ Recognize(TaggerOutputs(caption_text))

CaptionRecognizeFails ==
    /\ cap_pc = "call"
    /\ cap_pc' = "raised"
    /\ UNCHANGED <<caption_text, ner_spans, recognized_names, fixed_caption,
                   char_shift, span_idx, name_vars, arg_vars, pass_vars, sweep_vars>>

CaptionFixSpan ==
    /\ cap_pc = "loop"
    /\ span_idx < Len(recognized_names)
    /\ LET rec_name   == recognized_names[span_idx + 1]
           fixed_name == fix_misspelled_name(rec_name.text, confirmed_names,
                                             skip_names, DefaultThreshold)
       IN  /\ fixed_caption' = Splice(fixed_caption, rec_name, fixed_name, char_shift)
           /\ char_shift' = ShiftAfter(char_shift, fixed_name, rec_name)
    /\ span_idx' = span_idx + 1
    /\ UNCHANGED <<caption_text, ner_spans, recognized_names, cap_pc,
                   name_vars, arg_vars, pass_vars, sweep_vars>>

CaptionReturn ==
    /\ cap_pc = "loop"
    /\ span_idx = Len(recognized_names)
    /\ cap_pc' = "done"
    /\ UNCHANGED <<caption_text, ner_spans, recognized_names, fixed_caption,
                   char_shift, span_idx, name_vars, arg_vars, pass_vars, sweep_vars>>

-----------------------------------------------------------------------------
(* A call of fix_misspelled_names_of_caption *)

HiJonhMeetMarey ==
    <<"H", "i", " ", "J", "o", "n", "h", ",", " ", "m", "e", "e", "t", " ",
      "M", "a", "r", "e", "y", ".">>
HiJohnMeetMary ==
    <<"H", "i", " ", "J", "o", "h", "n", ",", " ", "m", "e", "e", "t", " ",
      "M", "a", "r", "y", ".">>
AleJonh == Ale \o <<" ">> \o Jonh
JonAle  == Jon \o <<" ">> \o Ale

CaptionTexts   == {Empty, Al, AleJonh, JonAle, HiJonhMeetMarey}
CaptionRosters == {<<John, Mary>>, <<Al, Jon, John>>, <<John, Al>>}
CaptionSkips   == {{}, {Ale}}

InitCaption ==
    /\ caption_text \in CaptionTexts
    /\ confirmed_names \in CaptionRosters
    /\ skip_names \in CaptionSkips
    /\ ner_spans = <<>> /\ recognized_names = <<>>
    /\ fixed_caption = None /\ char_shift = 0 /\ span_idx = 0 /\ cap_pc = "call"
    /\ pass = 1 /\ first_text = None /\ first_spans = <<>> /\ first_fixed = None
    /\ NameIdle /\ SweepIdle

NextCaption ==
    \/ CaptionRecognize
    \/ CaptionRecognizeFails
    \/ CaptionFixSpan
    \/ CaptionReturn
SpecCaption == InitCaption /\ [][NextCaption]_vars

-----------------------------------------------------------------------------
(* Two calls of fix_misspelled_names_of_caption in a row, the second on the *)
(* text the first returned, with the same roster, skip list and tagger.     *)
(* Here the tagger labels as flair does: spans in ascending order, disjoint *)
(* and inside the text; and it is deterministic, so a text it has seen      *)
(* gets the labels it got before.                                           *)

InRange(t, s, e) == 0 <= s /\ s <= e /\ e <= Len(t)

OrderedEntities(t, spans) ==
    /\ \A i \in 1..Len(spans) :
           InRange(t, spans[i].start_position, spans[i].end_position)
    /\ \A i \in 1..(Len(spans) - 1) :
           spans[i].end_position <= spans[i + 1].start_position

CaptionRecognizeOrdered ==
    Recognize({spans \in TaggerOutputs(caption_text) :
                  /\ OrderedEntities(caption_text, spans)
                  /\ (pass = 2 /\ caption_text = first_text) => spans = first_spans})

CaptionAgain ==
    /\ cap_pc = "done"
    /\ pass = 1
    /\ pass' = 2
    /\ first_text' = caption_text
    /\ first_spans' = ner_spans
    /\ first_fixed' = fixed_caption
    /\ caption_text' = fixed_caption
    /\ ner_spans' = <<>> /\ recognized_names' = <<>>
    /\ fixed_caption' = None /\ char_shift' = 0 /\ span_idx' = 0
    /\ cap_pc' = "call"
    /\ UNCHANGED <<name_vars, arg_vars, sweep_vars>>

InitIdem == InitCaption
NextIdem ==
    \/ CaptionRecognizeOrdered
    \/ CaptionFixSpan
    \/ CaptionReturn
    \/ CaptionAgain
SpecIdem == InitIdem /\ [][NextIdem]_vars

-----------------------------------------------------------------------------
(* fix_misspelled_names_in_srt *)

\* def fix_misspelled_names_of_caption(caption_text, confirmed_names,
\* skip_names, tagger): four parameters, none with a default.
CaptionParams == <<"caption_text", "confirmed_names", "skip_names", "tagger">>

\* fix_misspelled_names_of_caption(caption, tagger = tagger): one positional
\* argument and one keyword.
SweepCallKeywords == {"tagger"}

\* The parameters the call leaves without a value; Python raises TypeError
\* when there is one.
AllArgumentsBound == {}
MissingArguments ==
    {CaptionParams[j] : j \in (SweepCallPositional + 1)..Len(CaptionParams)}
        \ SweepCallKeywords

\* What the call in the loop can come to for a caption: an exception, or the
\* text returned for what the tagger labels.
CaptionCallOutcomes(caption) ==
    IF MissingArguments # {}
    THEN {[raised |-> "TypeError", value |-> None]}
    ELSE {[raised |-> "TaggerError", value |-> None]} \cup
         {[raised |-> "none",
           value  |-> fix_misspelled_names_of_caption(caption, confirmed_names,
                                                      skip_names, spans)] :
              spans \in TaggerOutputs(caption)}

\* srt = pysrt.open(srt_path); change_count = 0
SweepOpen ==
    /\ sweep_pc = "start"
    /\ change_count' = 0
    /\ sweep_idx' = 0
    /\ sweep_pc' = "loop"
    /\ UNCHANGED <<srt, srt0, exception, reported, saved, timing_read,
                   text_writes, name_vars, arg_vars, cap_vars, pass_vars>>

\* One turn of the for loop over the captions.
SweepCaption ==
    /\ sweep_pc = "loop"
    /\ sweep_idx < Len(srt)
    /\ LET sub         == srt[sweep_idx + 1]
           old_caption == sub.text
       IN  \E out \in CaptionCallOutcomes(old_caption) :
              IF out.raised # "none"
              THEN /\ exception' = out.raised
                   /\ sweep_pc' = "raised"
                   /\ UNCHANGED <<srt, sweep_idx, change_count, timing_read,
                                  text_writes>>
              ELSE /\ IF old_caption # out.value
                      THEN /\ change_count' = change_count + 1
                           \* the log line formats sub.start and sub.end
                           /\ timing_read' = TRUE
                           /\ srt' = [srt EXCEPT ![sweep_idx + 1].text = out.value]
                           /\ text_writes' = text_writes \cup {sweep_idx + 1}
                      ELSE UNCHANGED <<change_count, timing_read, srt, text_writes>>
                   /\ sweep_idx' = sweep_idx + 1
                   /\ UNCHANGED <<exception, sweep_pc>>
    /\ UNCHANGED <<srt0, reported, saved, name_vars, arg_vars, cap_vars, pass_vars>>

\* print and logging.info of the count, once the loop is over
SweepReport ==
    /\ sweep_pc = "loop"
    /\ sweep_idx = Len(srt)
    /\ reported' = Append(reported, change_count)
    /\ sweep_pc' = "report"
    /\ UNCHANGED <<srt, srt0, sweep_idx, change_count, exception, saved,
                   timing_read, text_writes, name_vars, arg_vars, cap_vars,
                   pass_vars>>

\* srt.save(new_srt_path)
SweepSave ==
    /\ sweep_pc = "report"
    /\ saved' = TRUE
    /\ sweep_pc' = "done"
    /\ UNCHANGED <<srt, srt0, sweep_idx, change_count, exception, reported,
                   timing_read, text_writes, name_vars, arg_vars, cap_vars,
                   pass_vars>>

\* The files: up to MaxCaptions captions, each a text with its two times.
SweepTexts == {Al, AleJonh, JonAle}
Timings    == {<<0, 1>>, <<1, 2>>}
Captions   == {[text |-> t, start |-> w[1], end |-> w[2]] :
                  t \in SweepTexts, w \in Timings}
SrtFiles   == SeqsUpTo(Captions, MaxCaptions)

\* confirmed_names and skip_names are the lists a caller holds; the sweep
\* takes none and passes none on.
InitSweep ==
    /\ srt \in SrtFiles
    /\ srt0 = srt
    /\ confirmed_names \in CaptionRosters
    /\ skip_names \in CaptionSkips
    /\ sweep_idx = 0 /\ change_count = 0 /\ sweep_pc = "start"
    /\ exception = "none" /\ reported = <<>> /\ saved = FALSE
    /\ timing_read = FALSE /\ text_writes = {}
    /\ NameIdle /\ CaptionIdle

NextSweep ==
    \/ SweepOpen
    \/ SweepCaption
    \/ SweepReport
    \/ SweepSave
SpecSweep == InitSweep /\ [][NextSweep]_vars

-----------------------------------------------------------------------------
(* Every operation *)

Init == InitName \/ InitOrder \/ InitCaption \/ InitSweep
Next == NextName \/ CallFixNameReordered \/ NextCaption \/ CaptionAgain \/ NextSweep
Spec == Init /\ [][Next]_vars

-----------------------------------------------------------------------------
(* The claims about fix_misspelled_name, checked under SpecName.  The      *)
(* acceptance rule is restated here from the claims, not taken from        *)
(* Accepts.                                                                *)

NameReturned == name_pc = "returned"
RosterIdx == 1..Len(confirmed_names)
DistTo(i) == distance(recognized_name, confirmed_names[i])

RuleAccepts(i) ==
    \/ Len(confirmed_names[i]) <= 3 /\ DistTo(i) <= 1
    \/ Len(confirmed_names[i]) > 3 /\ DistTo(i) <= char_edit_dist_threshold
AcceptedIdx == {i \in RosterIdx : RuleAccepts(i)}
AcceptedNames == {confirmed_names[i] : i \in AcceptedIdx}

\* C1: a candidate that is in the skip list is returned as it is, whatever
\* the roster holds.
C1_SkipPrecedence ==
    (NameReturned /\ recognized_name \in skip_names)
        => name_result = recognized_name

\* A skipped candidate with another roster entry one edit away, which the
\* acceptance rule would take.
C1_Witness ==
    /\ NameReturned
    /\ recognized_name \in skip_names
    /\ \E i \in AcceptedIdx : DistTo(i) = 1
    /\ name_result = recognized_name

\* C2 as stated: for a candidate outside the skip list the result is the
\* candidate or a roster entry the length-aware rule accepts, and it is the
\* candidate exactly when the rule accepts no roster entry.
C2_AsStated ==
    (NameReturned /\ recognized_name \notin skip_names)
        => /\ name_result = recognized_name \/ name_result \in AcceptedNames
           /\ name_result = recognized_name <=> AcceptedNames = {}

\* C2 amended: the result is the candidate exactly when the rule accepts no
\* roster entry or the candidate is itself an accepted roster entry; a roster
\* entry of length <= 3 at distance 2 is never returned.
C2_LengthAwareAcceptance ==
    (NameReturned /\ recognized_name \notin skip_names)
        => /\ name_result = recognized_name \/ name_result \in AcceptedNames
           /\ name_result = recognized_name
                  <=> (AcceptedNames = {} \/ recognized_name \in AcceptedNames)
           /\ \A i \in RosterIdx :
                  (Len(confirmed_names[i]) <= 3 /\ DistTo(i) = 2)
                      => name_result # confirmed_names[i]

\* Threshold 2, a short roster entry at distance 2 that is refused, and a
\* long entry at distance 2 that is returned.
C2_Witness ==
    /\ NameReturned
    /\ recognized_name \notin skip_names
    /\ char_edit_dist_threshold = 2
    /\ \E i \in RosterIdx : Len(confirmed_names[i]) <= 3 /\ DistTo(i) = 2
    /\ \E i \in RosterIdx : /\ Len(confirmed_names[i]) > 3 /\ DistTo(i) = 2
                            /\ name_result = confirmed_names[i]

\* C3: when the rule accepts a roster entry (and the candidate is not
\* skipped), the result is the accepted entry of least distance, and among
\* several of that distance the one that comes first in the roster.
C3_SelectionTieBreak ==
    (NameReturned /\ recognized_name \notin skip_names /\ AcceptedIdx # {})
        => \E i \in AcceptedIdx :
               /\ name_result = confirmed_names[i]
               /\ \A j \in AcceptedIdx :
                      DistTo(i) < DistTo(j) \/ (DistTo(i) = DistTo(j) /\ i <= j)

\* Two different accepted entries tie at the least distance behind an
\* accepted entry that is further away; the first of the two is returned.
C3_Witness ==
    /\ NameReturned
    /\ recognized_name \notin skip_names
    /\ \E h, i, j \in AcceptedIdx :
           /\ h < i /\ i < j
           /\ DistTo(h) > DistTo(i) /\ DistTo(i) = DistTo(j)
           /\ confirmed_names[i] # confirmed_names[j]
           /\ name_result = confirmed_names[i]

\* C9 as stated: with an empty roster, or with an empty candidate, the
\* candidate is returned as it is.
C9_AsStated ==
    (NameReturned /\ (confirmed_names = <<>> \/ recognized_name = <<>>))
        => name_result = recognized_name

\* The roster entries the rule accepts for the empty candidate: the distance
\* from the empty string to an entry is the entry's length.
NearEmpty ==
    {confirmed_names[i] : i \in
        {k \in RosterIdx :
            \/ Len(confirmed_names[k]) <= 1
            \/ /\ Len(confirmed_names[k]) > 3
               /\ Len(confirmed_names[k]) <= char_edit_dist_threshold}}

\* C9 amended: an empty roster returns every candidate as it is; an empty
\* candidate is returned as it is when the roster holds no entry of length
\* <= 1 and no entry of length > 3 within the threshold, and is replaced by
\* such an entry otherwise (unless it is skipped).
C9_DegenerateInputs ==
    NameReturned
        => /\ confirmed_names = <<>> => name_result = recognized_name
           /\ (recognized_name = <<>> /\ NearEmpty = {})
                  => name_result = recognized_name
           /\ (recognized_name = <<>> /\ NearEmpty # {}
                    /\ recognized_name \notin skip_names)
                  => name_result \in NearEmpty

\* The empty candidate against a roster of entries of lengths 2 to 4.
C9_Witness ==
    /\ NameReturned
    /\ recognized_name = <<>>
    /\ Len(confirmed_names) = 3
    /\ NearEmpty = {}
    /\ name_result = <<>>

-----------------------------------------------------------------------------
(* The claim about the order of the roster, checked under SpecOrder *)

BothReturned == name_pc = "returned_both"
LeastIdx == {i \in AcceptedIdx : \A j \in AcceptedIdx : DistTo(i) <= DistTo(j)}
LeastNames == {confirmed_names[i] : i \in LeastIdx}
FirstOfLeastIn(names) ==
    names[CHOOSE i \in 1..Len(names) :
              /\ names[i] \in LeastNames
              /\ \A j \in 1..(i - 1) : names[j] \notin LeastNames]

\* C12 as stated: the same candidate, skip list and threshold give the same
\* result on two rosters that hold the same entries in a different order.
C12_AsStated ==
    BothReturned => reordered_result = name_result

\* C12 amended: the two results are the same when the candidate is skipped,
\* when the rule accepts no entry, or when the accepted entries of least
\* distance are one and the same name; when different accepted names tie at
\* the least distance, each call returns the one of them that comes first in
\* the roster it was given.
C12_RosterOrder ==
    BothReturned
        => /\ (recognized_name \in skip_names \/ Cardinality(LeastNames) <= 1)
                  => reordered_result = name_result
           /\ (recognized_name \notin skip_names /\ Cardinality(LeastNames) > 1)
                  => /\ name_result = FirstOfLeastIn(confirmed_names)
                     /\ reordered_result = FirstOfLeastIn(reordered_names)

\* A roster of three different entries, all accepted, the nearest one last,
\* and the reversed roster: both calls return the nearest entry.
C12_Witness ==
    /\ BothReturned
    /\ recognized_name \notin skip_names
    /\ Len(confirmed_names) = 3
    /\ AcceptedIdx = RosterIdx
    /\ Cardinality(AcceptedNames) = 3
    /\ LeastIdx = {3}
    /\ reordered_names = <<confirmed_names[3], confirmed_names[2], confirmed_names[1]>>
    /\ reordered_names # confirmed_names
    /\ name_result = confirmed_names[3]
    /\ reordered_result = name_result

-----------------------------------------------------------------------------
(* The claims about fix_misspelled_names_of_caption *)

CaptionDone == cap_pc = "done"
NameIdx == 1..Len(recognized_names)
Replacement(text) ==
    fix_misspelled_name(text, confirmed_names, skip_names, 2)

\* The person spans are inside the text, ascending and disjoint, and each
\* span's text is the slice of the text it covers.
WellFormedNames(text, names) ==
    /\ \A k \in 1..Len(names) :
           /\ InRange(text, names[k].text_start_pos, names[k].text_end_pos)
           /\ names[k].text =
                  SubSeq(text, names[k].text_start_pos + 1, names[k].text_end_pos)
    /\ \A k \in 1..(Len(names) - 1) :
           names[k].text_end_pos <= names[k + 1].text_start_pos

\* The text from offset pos on, with span k and every later span replaced
\* and everything between the spans kept.
RECURSIVE ReplacedFrom(_, _, _, _)
ReplacedFrom(text, names, k, pos) ==
    IF k > Len(names) THEN SubSeq(text, pos + 1, Len(text))
    ELSE SubSeq(text, pos + 1, names[k].text_start_pos)
             \o Replacement(names[k].text)
             \o ReplacedFrom(text, names, k + 1, names[k].text_end_pos)

\* C4: for person spans that are disjoint, ascending, inside the text and
\* carry the slice they cover, the call returns the text with every span
\* replaced by its correction and every other character kept in place;
\* 'Hi Jonh, meet Marey.' with spans [3,7) and [14,19) and the roster John,
\* Mary gives 'Hi John, meet Mary.'.
C4_SpliceCorrectness ==
    /\ (CaptionDone /\ WellFormedNames(caption_text, recognized_names))
           => fixed_caption = ReplacedFrom(caption_text, recognized_names, 1, 0)
    /\ ( /\ CaptionDone
         /\ caption_text = HiJonhMeetMarey
         /\ confirmed_names = <<John, Mary>>
         /\ Len(recognized_names) = 2
         /\ recognized_names[1].text_start_pos = 3
         /\ recognized_names[1].text_end_pos = 7
         /\ recognized_names[2].text_start_pos = 14
         /\ recognized_names[2].text_end_pos = 19 )
           => fixed_caption = HiJohnMeetMary

\* Two well-formed spans, the first replaced by a name of another length and
\* the second replaced too.
C4_Witness ==
    /\ CaptionDone
    /\ WellFormedNames(caption_text, recognized_names)
    /\ Len(recognized_names) = 2
    /\ Len(Replacement(recognized_names[1].text)) > Len(recognized_names[1].text)
    /\ Replacement(recognized_names[2].text) # recognized_names[2].text
    /\ fixed_caption = ReplacedFrom(caption_text, recognized_names, 1, 0)

\* The person spans overlap, are out of order, or leave the text.
MalformedNames(text, names) ==
    \/ \E k \in 1..Len(names) :
           ~InRange(text, names[k].text_start_pos, names[k].text_end_pos)
    \/ \E k \in 1..(Len(names) - 1) :
           names[k].text_end_pos > names[k + 1].text_start_pos

\* C10: when the person spans are malformed the call ends in a failure and
\* never returns a spliced text.
C10_MalformedRejected ==
    (recognized_names # <<>> /\ MalformedNames(caption_text, recognized_names))
        => cap_pc # "done"

\* C11: a text in which the tagger labels no person span, none at all or
\* only spans with other tags, is returned as it is, whatever the roster and
\* the skip list.
C11_NoOpOnNameFreeText ==
    (CaptionDone /\ \A i \in 1..Len(ner_spans) : ner_spans[i].tag # "PER")
        => fixed_caption = caption_text

\* The tagger labelled a span with another tag whose text the roster would
\* correct, and the text came back as it was.
C11_Witness ==
    /\ CaptionDone
    /\ ner_spans # <<>>
    /\ \A i \in 1..Len(ner_spans) : ner_spans[i].tag # "PER"
    /\ \E i \in 1..Len(ner_spans) :
           /\ InRange(caption_text, ner_spans[i].start_position,
                      ner_spans[i].end_position)
           /\ Replacement(ner_spans[i].text) # ner_spans[i].text
    /\ fixed_caption = caption_text

\* The lengths the first n person spans gained by their replacement.
RECURSIVE GainedUpTo(_, _)
GainedUpTo(names, n) ==
    IF n = 0 THEN 0
    ELSE GainedUpTo(names, n - 1)
             + Len(Replacement(names[n].text)) - Len(names[n].text)

\* C13: with person spans that are disjoint, ascending, inside the text and
\* carry the slice they cover, char_shift is 0 before the first turn of the
\* loop and after every turn it is the length of the working text less the
\* length of the original text, which is the sum over the spans done so far
\* of len(replacement) - len(span text); a replacement equal to the span
\* text adds nothing to it.
C13_ShiftInvariant ==
    (cap_pc \in {"loop", "done"} /\ WellFormedNames(caption_text, recognized_names))
        => /\ span_idx = 0 => char_shift = 0
           /\ char_shift = Len(fixed_caption) - Len(caption_text)
           /\ char_shift = GainedUpTo(recognized_names, span_idx)
           /\ (span_idx > 0 /\ Replacement(recognized_names[span_idx].text)
                                   = recognized_names[span_idx].text)
                  => char_shift = GainedUpTo(recognized_names, span_idx - 1)

\* Two well-formed spans done: the first gained or lost length, the second
\* was replaced by itself and left char_shift where it was.
C13_Witness ==
    /\ cap_pc = "loop"
    /\ WellFormedNames(caption_text, recognized_names)
    /\ Len(recognized_names) = 2
    /\ span_idx = 2
    /\ Replacement(recognized_names[2].text) = recognized_names[2].text
    /\ char_shift # 0
    /\ char_shift = Len(Replacement(recognized_names[1].text))
                        - Len(recognized_names[1].text)

-----------------------------------------------------------------------------
(* The claim about two calls in a row, checked under SpecIdem *)

SecondDone == pass = 2 /\ cap_pc = "done"

\* C5 as stated: the second call returns what the first returned.
C5_AsStated == SecondDone => fixed_caption = first_fixed

\* The person spans of the first call as they lie in the text it returned:
\* each holds its replacement and is moved by the lengths gained before it.
RECURSIVE CarriedNames(_, _, _)
CarriedNames(names, k, shift) ==
    IF k > Len(names) THEN <<>>
    ELSE LET fixed_name == Replacement(names[k].text)
         IN  <<[text           |-> fixed_name,
                tag            |-> names[k].tag,
                text_start_pos |-> names[k].text_start_pos + shift,
                text_end_pos   |-> names[k].text_start_pos + shift + Len(fixed_name)]>>
             \o CarriedNames(names, k + 1,
                             shift + Len(fixed_name) - Len(names[k].text))

\* C5 amended: the second call returns what the first returned whenever the
\* tagger labels, in the returned text, the person spans of the first call
\* at their new places.
C5_Idempotence ==
    ( /\ SecondDone
      /\ recognized_names = CarriedNames(recognize_names(first_spans), 1, 0) )
        => fixed_caption = first_fixed

\* The first call changed two names and the second call met both again.
C5_Witness ==
    /\ SecondDone
    /\ Len(recognized_names) = 2
    /\ recognized_names = CarriedNames(recognize_names(first_spans), 1, 0)
    /\ \A k \in 1..2 :
           recognized_names[k].text # recognize_names(first_spans)[k].text
    /\ fixed_caption = first_fixed

-----------------------------------------------------------------------------
(* The claims about fix_misspelled_names_in_srt, checked under SpecSweep *)

SweepEnded == sweep_pc \in {"done", "raised"}
CaptionIdx == 1..Len(srt)
ChangedCaptions == {j \in CaptionIdx : srt[j].text # srt0[j].text}

\* C6: a sweep of a file of N captions, for every N >= 0, reports a
\* change_count equal to the number of captions whose text differs before
\* and after the sweep.
C6_ChangeCounter ==
    SweepEnded => reported = <<Cardinality(ChangedCaptions)>>

C8_FailureIsolation ==
    SweepEnded => (sweep_idx = Len(srt) /\ saved)

=============================================================================
